---- MODULE Spec2Model ----
(***************************************************************************)
(* The article index / sitemap pipeline of the site tools:                 *)
(*   tools/article-generator.py  ArticleGenerator  (registrar, index)      *)
(*   tools/sitemap-generator.py  SitemapGenerator  (directory-driven map)  *)
(*   tools/index-generator.py    IndexGenerator    (scanner-driven map)    *)
(*   tools/content-manager.py    ContentManager    (create + sitemap)      *)
(* File names, dates and URLs are strings and are built character by       *)
(* character as the Python code builds them.                               *)
(***************************************************************************)
EXTENDS Integers, Sequences, FiniteSets, TLC

VARIABLES
    indexFile,      \* tools/articles-index.json: absent, valid JSON or malformed
    rootDir,        \* base_dir listing, in the order the OS returns it
    articlesDir,    \* files below base_dir/articles/, relative paths
    templatePresent,\* templates/article-template.html exists
    sitemap,        \* base_dir/sitemap.xml
    robots,         \* base_dir/robots.txt exists
    clock,          \* the day datetime.now() falls on
    result,         \* the last call: its inputs and what it returned or raised
    registered,     \* number of update_index calls that returned (history)
    batch,          \* the last batch call: its items, printed lines, returned list
    subject,        \* the argument of the function under study
    outcome         \* what the function under study returned

vars == <<indexFile, rootDir, articlesDir, templatePresent, sitemap, robots,
          clock, result, registered, batch, subject, outcome>>

\* What the single-call operations of the tools leave alone.
aux == <<batch, subject, outcome>>

----------------------------------------------------------------------------
\* Bounds of the model.

\* Records the index may hold before create_article is no longer called.
MaxArticles == 2
\* Last day the clock reaches (day 0 is 2024-12-31).
MaxDay == 1
\* Longest title generate_filename is studied on.
MaxTitleLen == 3
\* Most words in a file name infer_category_from_filename is studied on.
MaxWords == 2
\* Most pieces of markup in a document optimize_article_seo is studied on.
MaxPieces == 2

----------------------------------------------------------------------------
\* Strings.

Char(s, i) == SubSeq(s, i, i)

Rest(s) == SubSeq(s, 2, Len(s))

StartsWith(s, prefix) ==
    Len(s) >= Len(prefix) /\ SubSeq(s, 1, Len(prefix)) = prefix

EndsWith(s, suffix) ==
    Len(s) >= Len(suffix) /\ SubSeq(s, Len(s) - Len(suffix) + 1, Len(s)) = suffix

\* Position of the last "/" of s, 0 when there is none.
RECURSIVE LastSlash(_, _)
LastSlash(s, i) ==
    IF i = 0 THEN 0
    ELSE IF Char(s, i) = "/" THEN i
    ELSE LastSlash(s, i - 1)

basename(path) == SubSeq(path, LastSlash(path, Len(path)) + 1, Len(path))

\* s.find(sub, start) with positions counted from 1: the first position at
\* or after start where sub begins, 0 when there is none (Python: -1).
find(s, sub, start) ==
    LET hits == { p \in start..(Len(s) - Len(sub) + 1) :
                    SubSeq(s, p, p + Len(sub) - 1) = sub }
    IN  IF hits = {} THEN 0
        ELSE CHOOSE p \in hits : \A q \in hits : p <= q

\* sub in s
Contains(s, sub) == find(s, sub, 1) # 0

\* Position of c in s, 0 when it is not there.
RECURSIVE IndexOf(_, _, _)
IndexOf(s, c, i) ==
    IF i > Len(s) THEN 0
    ELSE IF Char(s, i) = c THEN i
    ELSE IndexOf(s, c, i + 1)

\* s.count(sub): occurrences that do not overlap, from position start on.
RECURSIVE count(_, _, _)
count(s, sub, start) ==
    LET p == find(s, sub, start)
    IN  IF p = 0 THEN 0 ELSE 1 + count(s, sub, p + Len(sub))

\* s[lo:hi] of Python for 0 <= lo: the characters at (0-based) positions
\* lo .. hi - 1, hi cut at the length of s.
Slice(s, lo, hi) ==
    SubSeq(s, lo + 1, IF hi > Len(s) THEN Len(s) ELSE hi)

\* str.lower(), on ASCII.
RECURSIVE lower(_)
lower(s) ==
    IF s = "" THEN ""
    ELSE LET k == IndexOf("ABCDEFGHIJKLMNOPQRSTUVWXYZ", Char(s, 1), 1)
         IN  (IF k = 0 THEN Char(s, 1)
              ELSE Char("abcdefghijklmnopqrstuvwxyz", k)) \o lower(Rest(s))

\* \w of Python's re on str, restricted to ASCII.
WordChars ==
    { Char("abcdefghijklmnopqrstuvwxyzABCDEFGHIJKLMNOPQRSTUVWXYZ0123456789_", i) :
        i \in 1..63 }

\* \s of Python's re.
SpaceChars == {" ", "\t", "\n", "\r"}

\* re.sub(r'[^\w\s-]', '', title)
RECURSIVE RemoveSpecial(_)
RemoveSpecial(s) ==
    IF s = "" THEN ""
    ELSE (IF Char(s, 1) \in WordChars \cup SpaceChars \cup {"-"}
          THEN Char(s, 1) ELSE "") \o RemoveSpecial(Rest(s))

RECURSIVE LStrip(_)
LStrip(s) ==
    IF s # "" /\ Char(s, 1) \in SpaceChars THEN LStrip(Rest(s)) ELSE s

RECURSIVE RStrip(_)
RStrip(s) ==
    IF s # "" /\ Char(s, Len(s)) \in SpaceChars
    THEN RStrip(SubSeq(s, 1, Len(s) - 1)) ELSE s

\* str.strip()
strip(s) == RStrip(LStrip(s))

RECURSIVE SkipSeparators(_)
SkipSeparators(s) ==
    IF s # "" /\ Char(s, 1) \in SpaceChars \cup {"-"}
    THEN SkipSeparators(Rest(s)) ELSE s

\* re.sub(r'[-\s]+', '-', clean_title)
RECURSIVE CollapseSeparators(_)
CollapseSeparators(s) ==
    IF s = "" THEN ""
    ELSE IF Char(s, 1) \in SpaceChars \cup {"-"}
         THEN "-" \o CollapseSeparators(SkipSeparators(s))
         ELSE Char(s, 1) \o CollapseSeparators(Rest(s))

----------------------------------------------------------------------------
\* Dates.

\* The calendar day of clock value n: 2024-12-31, 2025-01-01, 2025-01-02, ...
DateOf(n) ==
    IF n = 0 THEN [y |-> 2024, m |-> 12, d |-> 31]
    ELSE [y |-> 2025, m |-> 1, d |-> n]

Digit(n) == Char("0123456789", n + 1)

RECURSIVE ZeroPad(_, _)
ZeroPad(n, width) ==
    IF width = 0 THEN ""
    ELSE ZeroPad(n \div 10, width - 1) \o Digit(n % 10)

\* strftime("%Y%m%d")
strftime_compact(date) ==
    ZeroPad(date.y, 4) \o ZeroPad(date.m, 2) \o ZeroPad(date.d, 2)

\* strftime("%Y-%m-%d")
strftime_iso(date) ==
    ZeroPad(date.y, 4) \o "-" \o ZeroPad(date.m, 2) \o "-" \o ZeroPad(date.d, 2)

----------------------------------------------------------------------------
\* ArticleGenerator: configuration.

categories ==
    ("inheritance"   :> [page |-> "legal-knowledge.html#inheritance",
                         subcategories |-> <<"tax-planning", "registration", "disputes", "wills">>]) @@
    ("real-estate"   :> [page |-> "legal-knowledge.html#real-estate",
                         subcategories |-> <<"transactions", "mortgages", "disputes", "registration">>]) @@
    ("family-law"    :> [page |-> "legal-knowledge.html#family-law",
                         subcategories |-> <<"divorce", "custody", "property", "support">>]) @@
    ("civil-law"     :> [page |-> "legal-knowledge.html#civil-law",
                         subcategories |-> <<"contracts", "torts", "property", "obligations">>]) @@
    ("criminal-law"  :> [page |-> "legal-knowledge.html#criminal-law",
                         subcategories |-> <<"crimes", "procedures", "evidence", "penalties">>]) @@
    ("corporate-law" :> [page |-> "legal-knowledge.html#corporate-law",
                         subcategories |-> <<"formation", "governance", "securities", "mergers">>]) @@
    ("labor-law"     :> [page |-> "legal-knowledge.html#labor-law",
                         subcategories |-> <<"employment", "disputes", "benefits", "safety">>]) @@
    ("tax-law"       :> [page |-> "legal-knowledge.html#tax-law",
                         subcategories |-> <<"income", "estate", "corporate", "international">>])

Range(seq) == { seq[i] : i \in 1..Len(seq) }

\* validate without its second test.
validate_category_only(category, subcategory) ==
    IF category \notin DOMAIN categories
    THEN "Unknown category: " \o category
    ELSE ""

\* validate with the subcategory looked up in every category's list.
validate_any_category(category, subcategory) ==
    IF category \notin DOMAIN categories
    THEN "Unknown category: " \o category
    ELSE IF \A c \in DOMAIN categories :
                subcategory \notin Range(categories[c].subcategories)
    THEN "Unknown subcategory: " \o subcategory
    ELSE ""

\* The two membership tests that open create_article: "" when both pass,
\* otherwise the message of the ValueError raised.
validate(category, subcategory) ==
    IF category \notin DOMAIN categories
    THEN "Unknown category: " \o category
    ELSE IF subcategory \notin Range(categories[category].subcategories)
    THEN "Unknown subcategory: " \o subcategory
    ELSE ""

\* generate_filename that leaves the title's special characters in.
generate_filename_unclean(category, subcategory, title, date) ==
    LET clean_title == CollapseSeparators(strip(title))
    IN  category \o "-" \o subcategory \o "-" \o clean_title \o "-" \o date \o ".html"

\* generate_filename with the date already formatted (the default is
\* datetime.now().strftime("%Y%m%d"), read by the caller of this operator).
generate_filename(category, subcategory, title, date) ==
    LET clean_title == CollapseSeparators(strip(RemoveSpecial(title)))
    IN  category \o "-" \o subcategory \o "-" \o clean_title \o "-" \o date \o ".html"

----------------------------------------------------------------------------
\* The index file.

AbsentIndex == [state |-> "absent", articles |-> <<>>, total_articles |-> 0,
                last_updated |-> ""]

CorruptIndex == [state |-> "corrupt", articles |-> <<>>, total_articles |-> 0,
                 last_updated |-> ""]

\* load_index that starts the fresh index without the category table.
load_index_without_table(file, now) ==
    IF file.state = "valid" THEN file
    ELSE [state |-> "valid", articles |-> <<>>, total_articles |-> 0,
          categories |-> <<>>,
          last_updated |-> strftime_iso(DateOf(now))]

\* load_index on a file that is absent or parses: the file's content, or the
\* fresh index. (On a malformed file json.load raises; see create_article.)
load_index(file, now) ==
    IF file.state = "valid" THEN file
    ELSE [state |-> "valid", articles |-> <<>>, total_articles |-> 0,
          categories |-> categories,
          last_updated |-> strftime_iso(DateOf(now))]

\* save_index: the file holds what was dumped.
save_index(data) == data

\* update_index that counts before it appends.
update_index_stale_count(file, filename, title, category, subcategory, date, now) ==
    LET index_data == load_index(file, now)
        article_info == [filename |-> filename, title |-> title,
                         category |-> category, subcategory |-> subcategory,
                         date |-> date,
                         url |-> "https://lawyer880.com/" \o filename]
    IN  save_index([index_data EXCEPT
                        !.articles = Append(index_data.articles, article_info),
                        !.total_articles = Len(index_data.articles),
                        !.last_updated = strftime_iso(DateOf(now))])

\* update_index that replaces the record of the same filename, if any.
update_index_upsert(file, filename, title, category, subcategory, date, now) ==
    LET index_data == load_index(file, now)
        article_info == [filename |-> filename, title |-> title,
                         category |-> category, subcategory |-> subcategory,
                         date |-> date,
                         url |-> "https://lawyer880.com/" \o filename]
        known == \E i \in 1..Len(index_data.articles) :
                    index_data.articles[i].filename = filename
        merged == IF known
                  THEN [i \in 1..Len(index_data.articles) |->
                          IF index_data.articles[i].filename = filename
                          THEN article_info ELSE index_data.articles[i]]
                  ELSE Append(index_data.articles, article_info)
    IN  save_index([index_data EXCEPT !.articles = merged,
                                      !.total_articles = Len(merged),
                                      !.last_updated = strftime_iso(DateOf(now))])

\* update_index: load, append, recount, stamp, save. The value is the new
\* content of the index file.
update_index(file, filename, title, category, subcategory, date, now) ==
    LET index_data == load_index(file, now)
        article_info == [filename |-> filename,
                         title |-> title,
                         category |-> category,
                         subcategory |-> subcategory,
                         date |-> date,
                         url |-> "https://lawyer880.com/" \o filename]
        appended == Append(index_data.articles, article_info)
    IN  save_index([index_data EXCEPT !.articles = appended,
                                      !.total_articles = Len(appended),
                                      !.last_updated = strftime_iso(DateOf(now))])

----------------------------------------------------------------------------
\* The base directory.

Names(dir) == { dir[i].name : i \in 1..Len(dir) }

\* open(path, 'w') and write: an existing file keeps its place in the listing
\* and gets a new modification time; a new file is listed after the others
\* (the listing is kept in creation order).
WriteFile(dir, name, now) ==
    IF name \in Names(dir)
    THEN [i \in 1..Len(dir) |->
            IF dir[i].name = name THEN [dir[i] EXCEPT !.mtime = now] ELSE dir[i]]
    ELSE Append(dir, [name |-> name, mtime |-> now])

----------------------------------------------------------------------------
\* SitemapGenerator.

domain == "https://lawyer880.com"

page_priorities ==
    ("index.html"             :> [priority |-> "1.0", changefreq |-> "weekly"]) @@
    ("services-tailwind.html" :> [priority |-> "0.9", changefreq |-> "monthly"]) @@
    ("service-process.html"   :> [priority |-> "0.8", changefreq |-> "monthly"]) @@
    ("team.html"              :> [priority |-> "0.8", changefreq |-> "monthly"]) @@
    ("cases.html"             :> [priority |-> "0.8", changefreq |-> "weekly"]) @@
    ("legal-knowledge.html"   :> [priority |-> "0.8", changefreq |-> "weekly"]) @@
    ("pricing.html"           :> [priority |-> "0.7", changefreq |-> "monthly"])

excluded_files == {"googlecaf92c162f582b73.html", "article-template.html"}

classify_page(filename) ==
    IF StartsWith(filename, "article-") THEN "article"
    ELSE IF filename = "index.html" THEN "homepage"
    ELSE IF filename \in {"services-tailwind.html", "service-process.html"} THEN "service"
    ELSE IF filename \in {"team.html", "cases.html"} THEN "info"
    ELSE IF filename = "legal-knowledge.html" THEN "knowledge"
    ELSE "other"

type_configs ==
    ("homepage"  :> [priority |-> "1.0", changefreq |-> "weekly"]) @@
    ("service"   :> [priority |-> "0.9", changefreq |-> "monthly"]) @@
    ("info"      :> [priority |-> "0.8", changefreq |-> "monthly"]) @@
    ("knowledge" :> [priority |-> "0.8", changefreq |-> "weekly"]) @@
    ("article"   :> [priority |-> "0.6", changefreq |-> "monthly"]) @@
    ("other"     :> [priority |-> "0.5", changefreq |-> "monthly"])

get_page_config(filename, page_type) ==
    IF filename \in DOMAIN page_priorities THEN page_priorities[filename]
    ELSE IF page_type \in DOMAIN type_configs THEN type_configs[page_type]
    ELSE [priority |-> "0.5", changefreq |-> "monthly"]

\* get_file_modification_date taking its except branch: today's date.
get_file_modification_date_now(file) == strftime_iso(DateOf(clock))

\* os.path.getmtime formatted as a day.
get_file_modification_date(file) == strftime_iso(DateOf(file.mtime))

\* What glob's "*.html" matches in one directory: the names that end in
\* .html and do not begin with a dot.
GlobHtml(name) == EndsWith(basename(name), ".html") /\ ~StartsWith(basename(name), ".")

\* One directory's glob matches that are not excluded, as html_files items.
RECURSIVE GlobEntries(_, _, _)
GlobEntries(dir, i, inRoot) ==
    IF i > Len(dir) THEN <<>>
    ELSE (IF GlobHtml(dir[i].name) /\ (inRoot => dir[i].name \notin excluded_files)
          THEN <<[path |-> dir[i].name, mtime |-> dir[i].mtime,
                  type |-> IF inRoot THEN classify_page(dir[i].name) ELSE "article"]>>
          ELSE <<>>) \o GlobEntries(dir, i + 1, inRoot)

\* scan_html_files that looks below articles/ only.
scan_html_files_below_only(root, below) == GlobEntries(below, 1, FALSE)

\* scan_html_files: the root directory's pages, then everything below
\* articles/, each in listing order.
scan_html_files(root, below) ==
    GlobEntries(root, 1, TRUE) \o GlobEntries(below, 1, FALSE)

\* Position of the first ":" of s at or after i, 0 when there is none.
RECURSIVE FirstColon(_, _)
FirstColon(s, i) ==
    IF i > Len(s) THEN 0
    ELSE IF Char(s, i) = ":" THEN i
    ELSE FirstColon(s, i + 1)

SchemeChars == WordChars \cup {"+", "-", "."}

\* urllib.parse splits off a scheme when the text before the first ":" is a
\* letter followed by letters, digits, "+", "-" or ".".
HasScheme(url) ==
    LET c == FirstColon(url, 1)
    IN  /\ c > 1
        /\ Char(url, 1) \in WordChars \ {"_", "0", "1", "2", "3", "4", "5", "6", "7", "8", "9"}
        /\ \A i \in 1..(c - 1) : Char(url, i) \in SchemeChars \ {"_"}

\* urljoin(base, url) for a base that ends in "/" and a url without query,
\* fragment or dot segments: a url with a scheme of its own stands as it is,
\* a rooted one replaces the path, any other is appended to the base.
urljoin(base, url) ==
    IF url = "" THEN base
    ELSE IF HasScheme(url) THEN url
    ELSE IF StartsWith(url, "/") THEN domain \o url
    ELSE SubSeq(base, 1, LastSlash(base, Len(base))) \o url

\* The url element generate_sitemap adds for one item of html_files.
url_element(file_info) ==
    LET config == get_page_config(basename(file_info.path), file_info.type)
    IN  [loc |-> urljoin(domain \o "/", file_info.path),
         lastmod |-> get_file_modification_date(file_info),
         changefreq |-> config.changefreq,
         priority |-> config.priority]

RECURSIVE UrlElements(_, _)
UrlElements(html_files, i) ==
    IF i > Len(html_files) THEN <<>>
    ELSE <<url_element(html_files[i])>> \o UrlElements(html_files, i + 1)

\* generate_sitemap: the url elements written, in document order.
generate_sitemap(root, below) == UrlElements(scan_html_files(root, below), 1)

----------------------------------------------------------------------------
\* IndexGenerator.

RECURSIVE ScanRoot(_, _)
ScanRoot(dir, i) ==
    IF i > Len(dir) THEN <<>>
    ELSE (IF StartsWith(dir[i].name, "article-") /\ EndsWith(dir[i].name, ".html")
          THEN <<[filename |-> dir[i].name,
                  date |-> strftime_iso(DateOf(dir[i].mtime)),
                  url |-> "https://lawyer880.com/" \o dir[i].name]>>
          ELSE <<>>) \o ScanRoot(dir, i + 1)

\* scan_existing_articles()["articles"]: the root directory's article-*.html
\* files in os.listdir order, with the fields the sitemap uses.
scan_existing_articles(root) == ScanRoot(root, 1)

RECURSIVE ArticleUrls(_, _)
ArticleUrls(articles, i) ==
    IF i > Len(articles) THEN <<>>
    ELSE <<[loc |-> articles[i].url, lastmod |-> articles[i].date,
            changefreq |-> "monthly", priority |-> "0.6"]>>
         \o ArticleUrls(articles, i + 1)

\* generate_sitemap_index: two fixed entries stamped with today's date, then
\* one entry per scanned article.
generate_sitemap_index(root, now) ==
    << [loc |-> "https://lawyer880.com/",
        lastmod |-> strftime_iso(DateOf(now)),
        changefreq |-> "weekly", priority |-> "1.0"],
       [loc |-> "https://lawyer880.com/legal-knowledge.html",
        lastmod |-> strftime_iso(DateOf(now)),
        changefreq |-> "weekly", priority |-> "0.9"] >>
    \o ArticleUrls(scan_existing_articles(root), 1)

\* infer_category_from_filename that looks for the tax keyword first.
infer_category_from_filename_tax_first(filename) ==
    LET filename_lower == lower(filename)
    IN  IF Contains(filename_lower, "tax")
        THEN "tax-law"
        ELSE IF \/ Contains(filename_lower, "inheritance")
                \/ Contains(filename_lower, "estate")
                \/ Contains(filename_lower, "will")
        THEN "inheritance"
        ELSE IF \/ Contains(filename_lower, "real-estate")
                \/ Contains(filename_lower, "property")
                \/ Contains(filename_lower, "mortgage")
        THEN "real-estate"
        ELSE IF \/ Contains(filename_lower, "family")
                \/ Contains(filename_lower, "divorce")
                \/ Contains(filename_lower, "custody")
        THEN "family-law"
        ELSE IF Contains(filename_lower, "criminal")
        THEN "criminal-law"
        ELSE IF \/ Contains(filename_lower, "corporate")
                \/ Contains(filename_lower, "company")
        THEN "corporate-law"
        ELSE IF \/ Contains(filename_lower, "labor")
                \/ Contains(filename_lower, "employment")
        THEN "labor-law"
        ELSE "civil-law"

\* infer_category_from_filename: the if/elif chain over the lower-cased name.
infer_category_from_filename(filename) ==
    LET filename_lower == lower(filename)
    IN  IF \/ Contains(filename_lower, "inheritance")
           \/ Contains(filename_lower, "estate")
           \/ Contains(filename_lower, "will")
        THEN "inheritance"
        ELSE IF \/ Contains(filename_lower, "real-estate")
                \/ Contains(filename_lower, "property")
                \/ Contains(filename_lower, "mortgage")
        THEN "real-estate"
        ELSE IF \/ Contains(filename_lower, "family")
                \/ Contains(filename_lower, "divorce")
                \/ Contains(filename_lower, "custody")
        THEN "family-law"
        ELSE IF Contains(filename_lower, "criminal")
        THEN "criminal-law"
        ELSE IF \/ Contains(filename_lower, "corporate")
                \/ Contains(filename_lower, "company")
        THEN "corporate-law"
        ELSE IF \/ Contains(filename_lower, "labor")
                \/ Contains(filename_lower, "employment")
        THEN "labor-law"
        ELSE IF Contains(filename_lower, "tax")
        THEN "tax-law"
        ELSE "civil-law"

\* update_legal_knowledge_page that loads the registrar's index and saves it
\* back before it writes the page.
update_legal_knowledge_page_saving_index(root, file, now) ==
    [rootDir |-> WriteFile(root, "legal-knowledge.html", now),
     indexFile |-> IF file.state = "corrupt" THEN file
                   ELSE save_index(load_index(file, now))]

\* update_legal_knowledge_page: scans, renders the page and writes
\* legal-knowledge.html, whether or not it was there. The value is the files
\* the call leaves behind.
update_legal_knowledge_page(root, file, now) ==
    [rootDir |-> WriteFile(root, "legal-knowledge.html", now),
     indexFile |-> file]

----------------------------------------------------------------------------
\* The sites the tools are started on, and the arguments they are given.

\* A base directory holding nothing but the directories ensure_directories
\* makes.
EmptyRoot == <<>>

\* A deployed site: the seven configured pages, the search-console file, a
\* hand-written article, a page outside the table, and files glob passes over.
LiveRoot ==
    << [name |-> "index.html", mtime |-> 0],
       [name |-> "services-tailwind.html", mtime |-> 0],
       [name |-> "service-process.html", mtime |-> 0],
       [name |-> "team.html", mtime |-> 0],
       [name |-> "cases.html", mtime |-> 0],
       [name |-> "legal-knowledge.html", mtime |-> 0],
       [name |-> "pricing.html", mtime |-> 0],
       [name |-> "googlecaf92c162f582b73.html", mtime |-> 0],
       [name |-> "article-inheritance-basics.html", mtime |-> 0],
       [name |-> "contact.html", mtime |-> 0],
       [name |-> "styles.css", mtime |-> 0],
       [name |-> ".draft.html", mtime |-> 0] >>

LiveArticles == << [name |-> "articles/inheritance/guide.html", mtime |-> 0] >>

\* Where the tools start: no template; a fresh site; a fresh site whose index
\* file does not parse; the deployed site.
Sites ==
    { [root |-> EmptyRoot, below |-> <<>>, template |-> FALSE, index |-> AbsentIndex],
      [root |-> EmptyRoot, below |-> <<>>, template |-> TRUE, index |-> AbsentIndex],
      [root |-> EmptyRoot, below |-> <<>>, template |-> TRUE, index |-> CorruptIndex],
      [root |-> LiveRoot, below |-> LiveArticles, template |-> TRUE, index |-> AbsentIndex] }

\* Two titles with one slug.
Titles == {"Estate tax", "Estate-tax?"}

\* A category of the table and one outside it.
InputCategories == {"inheritance", "property-law"}

\* "wills" is a subcategory of inheritance; "estate" is one of tax-law only.
InputSubcategories == {"wills", "estate"}

NoCall == [op |-> "", status |-> "", category |-> "", subcategory |-> "",
           filename |-> ""]

NoBatch == [op |-> "", items |-> <<>>, printed |-> <<>>, created_files |-> <<>>]

NoSubject == [fn |-> ""]

NoOutcome == [returned |-> FALSE]

----------------------------------------------------------------------------
\* The state machine.

Init ==
    /\ \E site \in Sites :
        /\ rootDir = site.root
        /\ articlesDir = site.below
        /\ templatePresent = site.template
        /\ indexFile = site.index
    /\ sitemap = [present |-> FALSE, urls |-> <<>>]
    /\ robots = FALSE
    /\ clock = 0
    /\ result = NoCall
    /\ registered = 0
    /\ batch = NoBatch
    /\ subject = NoSubject
    /\ outcome = NoOutcome

\* create_article that registers the article without writing its file.
create_article_at_unwritten(root, file, now, title, category, subcategory, t2) ==
    LET today == strftime_iso(DateOf(now))
        filename == generate_filename(category, subcategory, title,
                                      strftime_compact(DateOf(t2)))
    IN  IF validate(category, subcategory) # ""
        THEN [status |-> "ValueError", filename |-> "",
              rootDir |-> root, indexFile |-> file]
        ELSE IF ~templatePresent
        THEN [status |-> "FileNotFoundError", filename |-> "",
              rootDir |-> root, indexFile |-> file]
        ELSE IF file.state = "corrupt"
        THEN [status |-> "JSONDecodeError", filename |-> filename,
              rootDir |-> root, indexFile |-> file]
        ELSE [status |-> "ok", filename |-> filename,
              rootDir |-> root,
              indexFile |-> update_index(file, filename, title, category,
                                         subcategory, today, t2)]

\* create_article, called when the clock shows day `clock`; the file name is
\* dated by a second reading of the clock, day t2. The value is what the call
\* leaves behind: how it ended, the file name it derived, the directory and
\* the index file.
create_article_at(root, file, now, title, category, subcategory, t2) ==
    LET today == strftime_iso(DateOf(now))
        filename == generate_filename(category, subcategory, title,
                                      strftime_compact(DateOf(t2)))
        written == WriteFile(root, filename, t2)
    IN  IF validate(category, subcategory) # ""
        THEN [status |-> "ValueError", filename |-> "",
              rootDir |-> root, indexFile |-> file]
        ELSE IF ~templatePresent
        THEN [status |-> "FileNotFoundError", filename |-> "",
              rootDir |-> root, indexFile |-> file]
        ELSE IF file.state = "corrupt"
        THEN [status |-> "JSONDecodeError", filename |-> filename,
              rootDir |-> written, indexFile |-> file]
        ELSE [status |-> "ok", filename |-> filename,
              rootDir |-> written,
              indexFile |-> update_index(file, filename, title, category,
                                         subcategory, today, t2)]

\* create_article on the site as it is now.
create_article(title, category, subcategory, t2) ==
    create_article_at(rootDir, indexFile, clock, title, category, subcategory, t2)

\* The days the second reading of the clock may show: the clock is read again
\* only past the validation and the template, and midnight may have passed.
SecondReading(category, subcategory) ==
    IF validate(category, subcategory) # "" \/ ~templatePresent
    THEN {clock}
    ELSE {clock, clock + 1} \cap (0..MaxDay)

\* ArticleGenerator.create_article called on its own (the module's example,
\* generate_batch_articles).
CreateArticle(title, category, subcategory, t2) ==
    LET done == create_article(title, category, subcategory, t2)
    IN  /\ Len(indexFile.articles) < MaxArticles
        /\ rootDir' = done.rootDir
        /\ indexFile' = done.indexFile
        /\ registered' = IF done.status = "ok" THEN registered + 1 ELSE registered
        /\ clock' = t2
        /\ result' = [op |-> "create_article", status |-> done.status,
                      category |-> category, subcategory |-> subcategory,
                      filename |-> done.filename]
        /\ UNCHANGED <<articlesDir, templatePresent, sitemap, robots>>
        /\ UNCHANGED aux

\* create_article whose process is killed inside save_index, after
\* open(index_file, 'w') has truncated the file and before json.dump has
\* written the last character: the article file is on disk, and the index
\* file is empty or ends in the middle of the document.
CreateArticleKilled(title, category, subcategory, t2) ==
    LET done == create_article(title, category, subcategory, t2)
    IN  /\ Len(indexFile.articles) < MaxArticles
        /\ done.status = "ok"
        /\ rootDir' = done.rootDir
        /\ indexFile' = CorruptIndex
        /\ clock' = t2
        /\ result' = [op |-> "create_article", status |-> "killed",
                      category |-> category, subcategory |-> subcategory,
                      filename |-> done.filename]
        /\ UNCHANGED <<articlesDir, templatePresent, sitemap, robots, registered>>
        /\ UNCHANGED aux

\* ContentManager.create_article_from_template under the default
\* configuration (automation.auto_update_sitemap on): create_article, and
\* when it returned, update_sitemap (generate_sitemap, update_robots_txt).
CreateArticleFromTemplate(title, category, subcategory, t2) ==
    LET done == create_article(title, category, subcategory, t2)
    IN  /\ Len(indexFile.articles) < MaxArticles
        /\ rootDir' = done.rootDir
        /\ indexFile' = done.indexFile
        /\ registered' = IF done.status = "ok" THEN registered + 1 ELSE registered
        /\ clock' = t2
        /\ IF done.status = "ok"
           THEN /\ sitemap' = [present |-> TRUE,
                               urls |-> generate_sitemap(done.rootDir, articlesDir)]
                /\ robots' = TRUE
           ELSE UNCHANGED <<sitemap, robots>>
        /\ result' = [op |-> "create_article_from_template", status |-> done.status,
                      category |-> category, subcategory |-> subcategory,
                      filename |-> done.filename]
        /\ UNCHANGED <<articlesDir, templatePresent>>
        /\ UNCHANGED aux

\* One item of a batch, inside the loop's try: the call (create_article for
\* generate_batch_articles, create_article_from_template for a CSV row, which
\* regenerates the sitemap when create_article returned), the append to
\* created_files and the line printed; in the except branch only the line.
\* An item without its "content" key fails in the call itself (TypeError).
\* acc is the site and the lists so far.
batch_item(acc, config, now, fromCsv) ==
    LET done == create_article_at(acc.rootDir, acc.indexFile, now, config.title,
                                  config.category, config.subcategory, now)
    IN  IF ~config.complete
        THEN [acc EXCEPT !.printed = Append(@, [mark |-> "failed",
                                                text |-> config.title,
                                                error |-> "TypeError"])]
        ELSE IF done.status # "ok"
        THEN [acc EXCEPT !.rootDir = done.rootDir,
                         !.printed = Append(@, [mark |-> "failed",
                                                text |-> config.title,
                                                error |-> done.status])]
        ELSE [acc EXCEPT !.rootDir = done.rootDir,
                         !.indexFile = done.indexFile,
                         !.registered = @ + 1,
                         !.sitemap = IF fromCsv
                                     THEN [present |-> TRUE,
                                           urls |-> generate_sitemap(done.rootDir,
                                                                     articlesDir)]
                                     ELSE @,
                         !.robots = IF fromCsv THEN TRUE ELSE @,
                         !.created_files = Append(@, done.filename),
                         !.printed = Append(@, [mark |-> "ok",
                                                text |-> done.filename,
                                                error |-> ""])]

\* A batch loop without the try: the first failing item ends it.
RECURSIVE generate_batch_articles_aborting(_, _, _, _, _)
generate_batch_articles_aborting(articles_config, i, acc, now, fromCsv) ==
    IF i > Len(articles_config) THEN acc
    ELSE LET next == batch_item(acc, articles_config[i], now, fromCsv)
         IN  IF next.printed[Len(next.printed)].mark = "failed" THEN next
             ELSE generate_batch_articles_aborting(articles_config, i + 1, next,
                                                   now, fromCsv)

\* generate_batch_articles and the loop of batch_create_from_csv: the items
\* in input order, each in its own try.
RECURSIVE generate_batch_articles(_, _, _, _, _)
generate_batch_articles(articles_config, i, acc, now, fromCsv) ==
    IF i > Len(articles_config) THEN acc
    ELSE generate_batch_articles(articles_config, i + 1,
                                 batch_item(acc, articles_config[i], now, fromCsv),
                                 now, fromCsv)

\* The items a batch is made of: two that create_article accepts, one of a
\* category outside the table, one without its content.
BatchItems ==
    { [title |-> "Estate tax", category |-> "inheritance",
       subcategory |-> "wills", complete |-> TRUE],
      [title |-> "Wills", category |-> "inheritance",
       subcategory |-> "wills", complete |-> TRUE],
      [title |-> "Deeds", category |-> "property-law",
       subcategory |-> "wills", complete |-> TRUE],
      [title |-> "Trusts", category |-> "inheritance",
       subcategory |-> "wills", complete |-> FALSE] }

Batches(n) == UNION { [1..k -> BatchItems] : k \in 1..n }

\* A batch call, from the lists of the command line or the rows of a CSV file.
Batch(articles_config, fromCsv) ==
    LET done == generate_batch_articles(articles_config, 1,
                    [rootDir |-> rootDir, indexFile |-> indexFile,
                     registered |-> registered, sitemap |-> sitemap,
                     robots |-> robots, printed |-> <<>>, created_files |-> <<>>],
                    clock, fromCsv)
    IN  /\ rootDir' = done.rootDir
        /\ indexFile' = done.indexFile
        /\ registered' = done.registered
        /\ sitemap' = done.sitemap
        /\ robots' = done.robots
        /\ batch' = [op |-> IF fromCsv THEN "batch_create_from_csv"
                                       ELSE "generate_batch_articles",
                     items |-> articles_config,
                     printed |-> done.printed,
                     created_files |-> done.created_files]
        /\ result' = [NoCall EXCEPT !.op = batch'.op, !.status = "ok"]
        /\ UNCHANGED <<articlesDir, templatePresent, clock, subject, outcome>>

\* ArticleGenerator.generate_batch_articles.
GenerateBatchArticles(articles_config) == Batch(articles_config, FALSE)

\* ContentManager.batch_create_from_csv on a file that opens.
BatchCreateFromCsv(rows) == Batch(rows, TRUE)

\* ArticleGenerator.update_sitemap: loads the index, reads sitemap.xml, builds
\* the url items in a local string and returns; nothing is written.
UpdateSitemap ==
    /\ result' = [NoCall EXCEPT !.op = "update_sitemap",
                                !.status = IF indexFile.state = "corrupt"
                                           THEN "JSONDecodeError" ELSE "ok"]
    /\ UNCHANGED <<indexFile, rootDir, articlesDir, templatePresent, sitemap,
                   robots, clock, registered>>
    /\ UNCHANGED aux

\* SitemapGenerator.generate_sitemap followed by update_robots_txt (the
\* module's command line, ContentManager.update_sitemap).
GenerateSitemap ==
    /\ sitemap' = [present |-> TRUE, urls |-> generate_sitemap(rootDir, articlesDir)]
    /\ robots' = TRUE
    /\ result' = [NoCall EXCEPT !.op = "generate_sitemap", !.status = "ok"]
    /\ UNCHANGED <<indexFile, rootDir, articlesDir, templatePresent, clock, registered>>
    /\ UNCHANGED aux

\* IndexGenerator.generate_sitemap_index.
GenerateSitemapIndex ==
    /\ sitemap' = [present |-> TRUE, urls |-> generate_sitemap_index(rootDir, clock)]
    /\ result' = [NoCall EXCEPT !.op = "generate_sitemap_index", !.status = "ok"]
    /\ UNCHANGED <<indexFile, rootDir, articlesDir, templatePresent, robots,
                   clock, registered>>
    /\ UNCHANGED aux

\* IndexGenerator.scan_existing_articles: reads the directory and the
\* article files, writes nothing.
ScanExistingArticles ==
    /\ result' = [NoCall EXCEPT !.op = "scan_existing_articles", !.status = "ok"]
    /\ UNCHANGED <<indexFile, rootDir, articlesDir, templatePresent, sitemap,
                   robots, clock, registered>>
    /\ UNCHANGED aux

\* IndexGenerator.update_legal_knowledge_page.
UpdateLegalKnowledgePage ==
    LET done == update_legal_knowledge_page(rootDir, indexFile, clock)
    IN  /\ rootDir' = done.rootDir
        /\ indexFile' = done.indexFile
        /\ result' = [NoCall EXCEPT !.op = "update_legal_knowledge_page",
                                    !.status = "ok"]
        /\ UNCHANGED <<articlesDir, templatePresent, sitemap, robots, clock,
                       registered>>
        /\ UNCHANGED aux

\* ArticleGenerator.load_index, as generate_content_report and update_sitemap
\* call it: the value is returned, or json.load raises on a malformed file.
LoadIndex ==
    /\ result' = [NoCall EXCEPT !.op = "load_index",
                                !.status = IF indexFile.state = "corrupt"
                                           THEN "JSONDecodeError" ELSE "ok"]
    /\ outcome' = IF indexFile.state = "corrupt"
                  THEN [returned |-> FALSE]
                  ELSE [returned |-> TRUE, value |-> load_index(indexFile, clock)]
    /\ UNCHANGED <<indexFile, rootDir, articlesDir, templatePresent, sitemap,
                   robots, clock, registered, batch, subject>>

\* Midnight.
Tick ==
    /\ clock < MaxDay
    /\ clock' = clock + 1
    /\ UNCHANGED <<indexFile, rootDir, articlesDir, templatePresent, sitemap,
                   robots, result, registered>>
    /\ UNCHANGED aux

Next ==
    \/ \E title \in Titles, category \in InputCategories,
          subcategory \in InputSubcategories :
            \E t2 \in SecondReading(category, subcategory) :
                CreateArticle(title, category, subcategory, t2)
    \/ \E title \in Titles, category \in InputCategories,
          subcategory \in InputSubcategories :
            \E t2 \in SecondReading(category, subcategory) :
                CreateArticleFromTemplate(title, category, subcategory, t2)
    \/ UpdateSitemap
    \/ GenerateSitemap
    \/ GenerateSitemapIndex
    \/ Tick

Spec == Init /\ [][Next]_vars

\* The files and the history of the tools, which the functions studied on
\* their own neither read nor write.
site == <<indexFile, rootDir, articlesDir, templatePresent, sitemap, robots,
          clock, result, registered, batch>>

SiteAtRest ==
    /\ rootDir = EmptyRoot
    /\ articlesDir = <<>>
    /\ templatePresent = TRUE
    /\ indexFile = AbsentIndex
    /\ sitemap = [present |-> FALSE, urls |-> <<>>]
    /\ robots = FALSE
    /\ clock = 0
    /\ result = NoCall
    /\ registered = 0
    /\ batch = NoBatch

\* The characters titles are made of: a letter, a digit, the underscore,
\* the two separators, a special character.
TitleChars == {"a", "7", "_", " ", "-", "?"}

\* The strings over chars of length n, and of length at most n.
RECURSIVE StringsOfLen(_, _)
StringsOfLen(chars, n) ==
    IF n = 0 THEN {""}
    ELSE { s \o c : s \in StringsOfLen(chars, n - 1), c \in chars }

StringsUpTo(chars, n) == UNION { StringsOfLen(chars, k) : k \in 0..n }

\* generate_filename on its own: any title, a pair of the table, an explicit
\* date.
FilenameInit ==
    /\ SiteAtRest
    /\ subject \in [fn : {"generate_filename"},
                     category : {"inheritance"},
                     subcategory : {"wills", "disputes"},
                     title : StringsUpTo(TitleChars, MaxTitleLen),
                     date : { strftime_compact(DateOf(d)) : d \in 0..MaxDay }]
    /\ outcome = NoOutcome

\* A call of generate_filename with the subject's arguments; it can be called
\* a second time.
GenerateFilename ==
    /\ subject.fn = "generate_filename"
    /\ IF outcome.returned THEN outcome.calls = 1 ELSE TRUE
    /\ outcome' = [returned |-> TRUE,
                   calls |-> IF outcome.returned THEN 2 ELSE 1,
                   before |-> IF outcome.returned THEN outcome.value ELSE "",
                   value |-> generate_filename(subject.category, subject.subcategory,
                                               subject.title, subject.date)]
    /\ UNCHANGED <<subject, site>>

NextFilename == GenerateFilename

FilenameSpec == FilenameInit /\ [][NextFilename]_vars

\* The words file names are made of: every keyword of the chain, one of them
\* capitalised, one inside another word, and a word that is no keyword.
FilenameWords ==
    {"inheritance", "estate", "will", "real-estate", "property", "mortgage",
     "family", "divorce", "custody", "criminal", "corporate", "company",
     "labor", "employment", "tax", "Tax", "goodwill", "lease"}

RECURSIVE JoinWords(_, _)
JoinWords(words, i) ==
    IF i > Len(words) THEN ""
    ELSE "-" \o words[i] \o JoinWords(words, i + 1)

\* article-<word>-...-<word>.html
ArticleNames ==
    { "article" \o JoinWords(words, 1) \o ".html" :
        words \in UNION { [1..k -> FilenameWords] : k \in 0..MaxWords } }

\* infer_category_from_filename on its own.
InferInit ==
    /\ SiteAtRest
    /\ subject \in [fn : {"infer_category_from_filename"}, filename : ArticleNames]
    /\ outcome = NoOutcome

InferCategoryFromFilename ==
    /\ subject.fn = "infer_category_from_filename"
    /\ ~outcome.returned
    /\ outcome' = [returned |-> TRUE,
                   value |-> infer_category_from_filename(subject.filename)]
    /\ UNCHANGED <<subject, site>>

NextInfer == InferCategoryFromFilename

InferSpec == InferInit /\ [][NextInfer]_vars

\* The pairs create_article accepts.
ValidPairs ==
    UNION { { <<c, s>> : s \in Range(categories[c].subcategories) } :
            c \in DOMAIN categories }

\* Titles without a keyword of infer_category_from_filename.
PlainTitles == {"Lease", "Contract terms", "a_b"}

\* A file name of the registrar read back by the scanner: generate_filename,
\* then infer_category_from_filename (extract_article_info) on its value.
RoundTripInit ==
    /\ SiteAtRest
    /\ \E pair \in ValidPairs, title \in PlainTitles, d \in 0..MaxDay :
        subject = [fn |-> "infer_category_from_filename of generate_filename",
                   category |-> pair[1], subcategory |-> pair[2],
                   title |-> title, date |-> strftime_compact(DateOf(d))]
    /\ outcome = NoOutcome

InferCategoryOfGeneratedFilename ==
    LET filename == generate_filename(subject.category, subject.subcategory,
                                      subject.title, subject.date)
    IN  /\ subject.fn = "infer_category_from_filename of generate_filename"
        /\ ~outcome.returned
        /\ outcome' = [returned |-> TRUE, filename |-> filename,
                       value |-> infer_category_from_filename(filename)]
        /\ UNCHANGED <<subject, site>>

NextRoundTrip == InferCategoryOfGeneratedFilename

RoundTripSpec == RoundTripInit /\ [][NextRoundTrip]_vars

----------------------------------------------------------------------------
\* ContentManager: the SEO check.

\* The suggestions, whose texts are Chinese sentences in the source.
TitleTooLong == "title longer than 60 characters"
TitleMissing == "title tag missing"
DescriptionTooLong == "description longer than 160 characters"
DescriptionMissing == "meta description missing"
H1CountOff == "h1 count is not one"
InternalLinksFew == "fewer than 3 internal links"

\* content.split("<title>")[1].split("</title>")[0]
TitleText(content) ==
    LET a == find(content, "<title>", 1)
        after == SubSeq(content, a + 7, Len(content))
        b == find(after, "<title>", 1)
        piece == IF b = 0 THEN after ELSE SubSeq(after, 1, b - 1)
        c == find(piece, "</title>", 1)
    IN  IF c = 0 THEN piece ELSE SubSeq(piece, 1, c - 1)

\* The description as the check cuts it out; positions are Python's (from 0,
\* -1 for not found).
DescriptionText(content) ==
    LET desc_start == (find(content, "name=\"description\" content=\"", 1) - 1) + 29
        desc_end == find(content, "\"", desc_start + 1) - 1
    IN  IF desc_end > desc_start THEN Slice(content, desc_start, desc_end) ELSE ""

\* The body of the try of optimize_article_seo on a file's text.
SeoReport(filename, content) ==
    LET has_title == Contains(content, "<title>") /\ Contains(content, "</title>")
        title == TitleText(content)
        has_description == Contains(content, "name=\"description\"")
        description == DescriptionText(content)
        h1_count == count(content, "<h1", 1)
        internal_links == count(content, "href=\"legal-knowledge.html\"", 1)
                          + count(content, "href=\"index.html\"", 1)
    IN  [filename |-> filename,
         checks |-> (IF has_title THEN "title_length" :> Len(title) ELSE <<>>)
                    @@ (IF has_description
                        THEN "description_length" :> Len(description) ELSE <<>>)
                    @@ ("h1_count" :> h1_count)
                    @@ ("internal_links" :> internal_links),
         suggestions |->
               (IF has_title
                THEN (IF Len(title) > 60 THEN <<TitleTooLong>> ELSE <<>>)
                ELSE <<TitleMissing>>)
            \o (IF has_description
                THEN (IF Len(description) > 160 THEN <<DescriptionTooLong>> ELSE <<>>)
                ELSE <<DescriptionMissing>>)
            \o (IF h1_count # 1 THEN <<H1CountOff>> ELSE <<>>)
            \o (IF internal_links < 3 THEN <<InternalLinksFew>> ELSE <<>>)]

\* optimize_article_seo without its try: what open or read raises leaves the
\* function.
optimize_article_seo_untried(filename, file) ==
    IF ~file.exists
    THEN [file |-> file, returned |-> TRUE,
          value |-> [error |-> "File not found: " \o filename]]
    ELSE IF ~file.readable
    THEN [file |-> file, returned |-> FALSE]
    ELSE [file |-> file, returned |-> TRUE,
          value |-> SeoReport(filename, file.content)]

\* optimize_article_seo on base_dir/filename, a file that may be absent or
\* may not be readable as UTF-8 text. The value is the file afterwards and
\* what the call returned.
optimize_article_seo(filename, file) ==
    IF ~file.exists
    THEN [file |-> file, returned |-> TRUE,
          value |-> [error |-> "File not found: " \o filename]]
    ELSE IF ~file.readable
    THEN [file |-> file, returned |-> TRUE,
          value |-> [error |-> "Error analyzing " \o filename]]
    ELSE [file |-> file, returned |-> TRUE,
          value |-> SeoReport(filename, file.content)]

RECURSIVE Repeat(_, _)
Repeat(s, n) ==
    IF n = 0 THEN ""
    ELSE IF n % 2 = 0 THEN LET half == Repeat(s, n \div 2) IN half \o half
    ELSE s \o Repeat(s, n - 1)

\* The markup documents are made of. Beside its text each piece carries what
\* it is in the document: how many h1 elements, and whether it is a
\* description meta tag, with its content attribute.
Piece(text, h1, isDescription, content) ==
    [text |-> text, h1 |-> h1, isDescription |-> isDescription, content |-> content]

Description(content) ==
    Piece("<meta name=\"description\" content=\"" \o content \o "\">",
          0, TRUE, content)

Pieces ==
    { Piece("<title>Estate tax</title>", 0, FALSE, ""),
      Description(""),
      Description("Wills"),
      Description(Repeat("x", 161)),
      Piece("<meta name=\"keywords\" content=\"law\">", 0, FALSE, ""),
      Piece("<h1>Estate tax</h1>", 1, FALSE, ""),
      Piece("<h1 class=\"title\">Wills</h1>", 1, FALSE, ""),
      Piece("<H1>Probate</H1>", 1, FALSE, ""),
      Piece("<!-- <h1>Draft</h1> -->", 0, FALSE, ""),
      Piece("<h2>Steps</h2>", 0, FALSE, ""),
      Piece("<a href=\"index.html\">Home</a>", 0, FALSE, "") }

RECURSIVE Text(_, _)
Text(pieces, i) ==
    IF i > Len(pieces) THEN "" ELSE pieces[i].text \o Text(pieces, i + 1)

\* The files optimize_article_seo is called on: documents of up to MaxPieces
\* pieces, a file that is not there, a file that cannot be read as text.
SeoFiles ==
    { [exists |-> TRUE, readable |-> TRUE, pieces |-> pieces,
       content |-> Text(pieces, 1)] :
        pieces \in UNION { [1..k -> Pieces] : k \in 0..MaxPieces } }
    \cup { [exists |-> FALSE, readable |-> FALSE, pieces |-> <<>>, content |-> ""],
           [exists |-> TRUE, readable |-> FALSE, pieces |-> <<>>, content |-> ""] }

\* The live site, and one file of its base directory to check.
SeoInit ==
    /\ rootDir = LiveRoot
    /\ articlesDir = LiveArticles
    /\ templatePresent = TRUE
    /\ indexFile = AbsentIndex
    /\ sitemap = [present |-> FALSE, urls |-> <<>>]
    /\ robots = FALSE
    /\ clock = 0
    /\ result = NoCall
    /\ registered = 0
    /\ batch = NoBatch
    /\ \E file \in SeoFiles :
        subject = [fn |-> "optimize_article_seo",
                   filename |-> IF file.exists THEN "contact.html" ELSE "missing.html",
                   file |-> file]
    /\ outcome = NoOutcome

\* ContentManager.optimize_article_seo (the seo command).
OptimizeArticleSeo ==
    LET done == optimize_article_seo(subject.filename, subject.file)
    IN  /\ subject.fn = "optimize_article_seo"
        /\ ~outcome.returned
        /\ subject' = [subject EXCEPT !.file = done.file]
        /\ outcome' = IF done.returned
                      THEN [returned |-> TRUE, value |-> done.value]
                      ELSE [returned |-> FALSE, raised |-> TRUE]
        /\ result' = [NoCall EXCEPT !.op = "optimize_article_seo",
                                    !.status = IF done.returned THEN "ok"
                                               ELSE "raised"]
        /\ UNCHANGED <<indexFile, rootDir, articlesDir, templatePresent, sitemap,
                       robots, clock, registered, batch>>

NextSeo == OptimizeArticleSeo

SeoSpec == SeoInit /\ [][NextSeo]_vars

\* The site under the registrar and a reader of the index
\* (content-manager.py's report command).
NextReader ==
    \/ \E title \in Titles, category \in InputCategories,
          subcategory \in InputSubcategories :
            \E t2 \in SecondReading(category, subcategory) :
                CreateArticle(title, category, subcategory, t2)
    \/ LoadIndex
    \/ Tick

ReaderSpec == Init /\ [][NextReader]_vars

\* The registrar on a machine where a process can be killed, and a reader of
\* the index.
NextCrash ==
    \/ \E title \in Titles, category \in InputCategories,
          subcategory \in InputSubcategories :
            \E t2 \in SecondReading(category, subcategory) :
                CreateArticle(title, category, subcategory, t2)
    \/ \E title \in Titles, category \in InputCategories,
          subcategory \in InputSubcategories :
            \E t2 \in SecondReading(category, subcategory) :
                CreateArticleKilled(title, category, subcategory, t2)
    \/ LoadIndex
    \/ Tick

CrashSpec == Init /\ [][NextCrash]_vars

\* One run of a batch (the batch command of content-manager.py,
\* generate_batch_articles) on a site, on any day.
NextBatch ==
    \/ \E articles_config \in Batches(MaxArticles) :
            batch = NoBatch /\ GenerateBatchArticles(articles_config)
    \/ \E rows \in Batches(MaxArticles) :
            batch = NoBatch /\ BatchCreateFromCsv(rows)
    \/ Tick

BatchSpec == Init /\ [][NextBatch]_vars

\* The site under the registrar and the scanner (index-generator.py's command
\* line next to article-generator.py's).
NextScanner ==
    \/ \E title \in Titles, category \in InputCategories,
          subcategory \in InputSubcategories :
            \E t2 \in SecondReading(category, subcategory) :
                CreateArticle(title, category, subcategory, t2)
    \/ ScanExistingArticles
    \/ UpdateLegalKnowledgePage
    \/ GenerateSitemapIndex
    \/ Tick

ScannerSpec == Init /\ [][NextScanner]_vars

----------------------------------------------------------------------------
\* Properties.

CreateOps == {"create_article", "create_article_from_template"}

\* The closed enumeration, read off the table.
AllowedPair(category, subcategory) ==
    /\ category \in DOMAIN categories
    /\ \E k \in 1..Len(categories[category].subcategories) :
            categories[category].subcategories[k] = subcategory

FilenamesOf(file) == { file.articles[i].filename : i \in 1..Len(file.articles) }

Locs(urls) == { urls[j].loc : j \in 1..Len(urls) }

\* C1: starting without an index file, after N registrations that returned
\* the index file holds N records and total_articles = N; total_articles
\* equals the number of records whenever the file exists.
C1_TotalMatchesLength ==
    /\ indexFile.state = "valid" =>
        /\ indexFile.total_articles = Len(indexFile.articles)
        /\ Len(indexFile.articles) = registered
    /\ indexFile.state # "valid" => registered = 0 /\ indexFile.articles = <<>>

C1_TwoRegistered ==
    /\ indexFile.state = "valid"
    /\ registered = 2
    /\ indexFile.total_articles = 2

\* C2: the filenames of the records of the index are pairwise distinct.
C2_UniqueFilenames ==
    \A i, j \in 1..Len(indexFile.articles) :
        i # j => indexFile.articles[i].filename # indexFile.articles[j].filename

\* C3: a create_article call whose derived filename is already the filename
\* of a record does not register: it ends with DuplicateFilename and leaves
\* the index file as it was.
C3_DuplicateRejected ==
    [][ (result'.op \in CreateOps /\ result'.filename \in FilenamesOf(indexFile))
        => /\ registered' = registered
           /\ indexFile' = indexFile
           /\ (result' # result => result'.status = "DuplicateFilename") ]_vars

\* C4: create_article with a category outside the table, or a subcategory
\* outside its category's list, raises the validation error and writes
\* nothing: the index file, the directories, sitemap.xml and robots.txt stay
\* as they were.
C4_InvalidInputRejected ==
    [][ (result'.op \in CreateOps
         /\ ~AllowedPair(result'.category, result'.subcategory))
        => /\ result'.status = "ValueError"
           /\ UNCHANGED <<indexFile, rootDir, articlesDir, sitemap, robots,
                          registered>> ]_vars

C4_RejectedWithIndex ==
    /\ result.op \in CreateOps
    /\ result.status = "ValueError"
    /\ result.category = "inheritance"
    /\ result.subcategory = "estate"
    /\ Len(indexFile.articles) = 1

\* C5: every record of the index pairs a category of the table with one of
\* that category's subcategories.
C5_RecordsInTable ==
    \A i \in 1..Len(indexFile.articles) :
        AllowedPair(indexFile.articles[i].category,
                    indexFile.articles[i].subcategory)

C5_RecordAfterRejection ==
    /\ Len(indexFile.articles) = 1
    /\ AllowedPair(indexFile.articles[1].category, indexFile.articles[1].subcategory)
    /\ result.status = "ValueError"
    /\ result.category = "property-law"

\* C6: the records of the index only grow at the end: a step either leaves
\* them as they are or adds exactly one record after them, and it adds one
\* exactly when a registration returned.
C6_AppendOnly ==
    [][ \/ /\ indexFile'.articles = indexFile.articles
           /\ registered' = registered
        \/ /\ Len(indexFile'.articles) = Len(indexFile.articles) + 1
           /\ SubSeq(indexFile'.articles, 1, Len(indexFile.articles))
                = indexFile.articles
           /\ registered' = registered + 1 ]_vars

C6_SameFilenameKeptTwice ==
    /\ Len(indexFile.articles) = 2
    /\ indexFile.articles[1].filename = indexFile.articles[2].filename
    /\ indexFile.articles[1].title # indexFile.articles[2].title

\* C7: after a sitemap regeneration sitemap.xml holds one url per record of
\* the index and one per page of the priority table, K + 7 in all, with
\* pairwise distinct loc values.
C7_SitemapCount ==
    (result.status = "ok" /\ result.op \in {"update_sitemap", "generate_sitemap"})
    => /\ sitemap.present
       /\ Len(sitemap.urls)
            = Len(indexFile.articles) + Cardinality(DOMAIN page_priorities)
       /\ Cardinality(Locs(sitemap.urls)) = Len(sitemap.urls)

\* C8: when create_article_from_template has returned, sitemap.xml holds,
\* for every record of the index, a url whose loc is the record's url.
C8_SitemapCoversIndex ==
    (result.op = "create_article_from_template" /\ result.status = "ok")
    => \A i \in 1..Len(indexFile.articles) :
            indexFile.articles[i].url \in Locs(sitemap.urls)

C8_TwoCreatedOnLiveSite ==
    /\ result.op = "create_article_from_template"
    /\ result.status = "ok"
    /\ Len(indexFile.articles) = 2
    /\ "index.html" \in Names(rootDir)
    /\ indexFile.articles[1].filename # indexFile.articles[2].filename

\* C9: in the sitemap built when create_article_from_template returns, the
\* new article's url has priority 0.6 and changefreq monthly, and each page
\* of the priority table has the priority and changefreq of the table.
C9_ArticlePriority ==
    (result.op = "create_article_from_template" /\ result.status = "ok")
    => \A j \in 1..Len(sitemap.urls) :
        /\ sitemap.urls[j].loc = "https://lawyer880.com/" \o result.filename
            => /\ sitemap.urls[j].priority = "0.6"
               /\ sitemap.urls[j].changefreq = "monthly"
        /\ \A page \in DOMAIN page_priorities :
            sitemap.urls[j].loc = "https://lawyer880.com/" \o page
            => /\ sitemap.urls[j].priority = page_priorities[page].priority
               /\ sitemap.urls[j].changefreq = page_priorities[page].changefreq

\* The url elements of generate_sitemap_index without the two lastmod values
\* it takes from datetime.now().
WithoutToday(urls) ==
    [j \in 1..Len(urls) |-> IF j <= 2 THEN [urls[j] EXCEPT !.lastmod = ""] ELSE urls[j]]

\* C10: a sitemap generator run again right after itself writes what it
\* wrote before: generate_sitemap the same url elements in the same order,
\* generate_sitemap_index the same but for the lastmod of its two fixed
\* entries, which is today's date.
C10_RegenerationIdempotent ==
    [][ /\ (result.op = "generate_sitemap" /\ result'.op = "generate_sitemap")
            => sitemap' = sitemap
        /\ (result.op = "generate_sitemap_index" /\ result'.op = "generate_sitemap_index")
            => /\ sitemap'.present = sitemap.present
               /\ WithoutToday(sitemap'.urls) = WithoutToday(sitemap.urls) ]_vars

C10_RegeneratedNextDay ==
    /\ result.op = "generate_sitemap"
    /\ clock = 1
    /\ registered = 1
    /\ Len(sitemap.urls) > 1
    /\ sitemap.urls = generate_sitemap(rootDir, articlesDir)
    /\ \E j \in 1..Len(sitemap.urls) : sitemap.urls[j].lastmod = "2024-12-31"

ScannerOps == {"scan_existing_articles", "update_legal_knowledge_page",
               "generate_sitemap_index"}

\* C11: a call of the scanner (scan_existing_articles,
\* update_legal_knowledge_page, generate_sitemap_index) leaves the index file
\* as it was: absent stays absent, and a file keeps its content.
C11_ScannerKeepsIndex ==
    [][result'.op \in ScannerOps => indexFile' = indexFile]_vars

C11_PageWrittenBesideIndex ==
    /\ result.op = "update_legal_knowledge_page"
    /\ "legal-knowledge.html" \in Names(rootDir)
    /\ indexFile.state = "valid"
    /\ Len(indexFile.articles) = 1

\* C12: load_index on a site without an index file returns, and returns the
\* fresh index (no articles, total_articles 0, the category table of the
\* generator), and the file is still absent afterwards.
C12_AbsentIndexLoadsFresh ==
    [][(result'.op = "load_index" /\ indexFile.state = "absent")
        => /\ result'.status = "ok"
           /\ outcome'.returned
           /\ outcome'.value.articles = <<>>
           /\ outcome'.value.total_articles = 0
           /\ outcome'.value.categories = categories
           /\ indexFile' = indexFile]_vars

C12_FreshIndexOnLiveSite ==
    /\ result.op = "load_index"
    /\ indexFile.state = "absent"
    /\ "index.html" \in Names(rootDir)
    /\ outcome.returned
    /\ outcome.value.total_articles = 0

\* C13: a registration never leaves the index file empty or partly written:
\* a file that was absent or complete is, after any step of a registration
\* (one cut short included), absent or complete.
C13_IndexNeverPartial ==
    [][indexFile.state # "corrupt" => indexFile'.state # "corrupt"]_vars

IsOk(line) == line.mark = "ok"

\* The texts of the lines that report a created file, in the order printed.
OkTexts(printed) ==
    LET ok == SelectSeq(printed, IsOk)
    IN  [j \in 1..Len(ok) |-> ok[j].text]

\* C14: after a batch (generate_batch_articles, batch_create_from_csv) there
\* is one printed line per item, in input order, whatever happened to the
\* items before it: a line for a created file exactly for the items that
\* create_article accepts on this site, a failure line carrying the item's
\* title otherwise; and the returned list is the created files' names as
\* printed, in that order, each of them a file of the site.
C14_BatchContinues ==
    batch.op # "" =>
        /\ Len(batch.printed) = Len(batch.items)
        /\ \A i \in 1..Len(batch.items) :
            /\ batch.printed[i].mark = "ok"
                <=> /\ batch.items[i].complete
                    /\ AllowedPair(batch.items[i].category,
                                   batch.items[i].subcategory)
                    /\ templatePresent
                    /\ indexFile.state # "corrupt"
            /\ batch.printed[i].mark = "ok"
                => /\ batch.printed[i].text \in Names(rootDir)
                   /\ StartsWith(batch.printed[i].text,
                                 batch.items[i].category \o "-"
                                 \o batch.items[i].subcategory \o "-")
            /\ batch.printed[i].mark # "ok"
                => /\ batch.printed[i].mark = "failed"
                   /\ batch.printed[i].text = batch.items[i].title
        /\ batch.created_files = OkTexts(batch.printed)

C14_SecondRowCreatedAfterFailure ==
    /\ batch.op = "batch_create_from_csv"
    /\ Len(batch.items) = 2
    /\ batch.printed[1].mark = "failed"
    /\ batch.printed[2].mark = "ok"
    /\ batch.created_files = <<batch.printed[2].text>>
    /\ sitemap.present

\* The part of a file name between "{category}-{subcategory}-" and
\* "-{date}.html".
SlugOf(filename, category, subcategory, date) ==
    SubSeq(filename, Len(category) + Len(subcategory) + 3,
           Len(filename) - Len(date) - 6)

\* C15: for a pair of the table, any title and an explicit date,
\* generate_filename returns category, "-", subcategory, "-", a slug of
\* word characters and hyphens, "-", the date and ".html"; a second call
\* with the same arguments returns the same string.
C15_FilenameForm ==
    (subject.fn = "generate_filename" /\ outcome.returned) =>
        LET head == subject.category \o "-" \o subject.subcategory \o "-"
            tail == "-" \o subject.date \o ".html"
            slug == SlugOf(outcome.value, subject.category, subject.subcategory,
                           subject.date)
        IN  /\ AllowedPair(subject.category, subject.subcategory)
            /\ Len(outcome.value) >= Len(head) + Len(tail)
            /\ StartsWith(outcome.value, head)
            /\ EndsWith(outcome.value, tail)
            /\ \A i \in 1..Len(slug) : Char(slug, i) \in WordChars \cup {"-"}
            /\ outcome.calls = 2 => outcome.value = outcome.before

C15_SpecialCharacterDropped ==
    /\ subject.fn = "generate_filename"
    /\ subject.title = "a ?"
    /\ subject.date = "20250101"
    /\ outcome.returned
    /\ outcome.calls = 2
    /\ outcome.value = "inheritance-wills-a-20250101.html"

\* C16: the slug holds letters, digits and hyphens only (no underscore), and
\* the composed file name never has two hyphens in a row.
C16_SlugAlphanumericSingleHyphens ==
    (subject.fn = "generate_filename" /\ outcome.returned) =>
        LET slug == SlugOf(outcome.value, subject.category, subject.subcategory,
                           subject.date)
        IN  /\ \A i \in 1..Len(slug) : Char(slug, i) \in (WordChars \ {"_"}) \cup {"-"}
            /\ \A i \in 1..(Len(outcome.value) - 1) :
                    SubSeq(outcome.value, i, i + 1) # "--"

\* The rules of the claim, in its order.
InferenceRules ==
    << [category |-> "inheritance", keywords |-> {"inheritance", "estate", "will"}],
       [category |-> "real-estate", keywords |-> {"real-estate", "property", "mortgage"}],
       [category |-> "family-law", keywords |-> {"family", "divorce", "custody"}],
       [category |-> "criminal-law", keywords |-> {"criminal"}],
       [category |-> "corporate-law", keywords |-> {"corporate", "company"}],
       [category |-> "labor-law", keywords |-> {"labor", "employment"}],
       [category |-> "tax-law", keywords |-> {"tax"}] >>

\* The rules one of whose keywords occurs in the lower-cased file name.
MatchingRules(filename) ==
    LET lowered == lower(filename)
    IN  { k \in 1..Len(InferenceRules) :
            \E kw \in InferenceRules[k].keywords : Contains(lowered, kw) }

\* C17: infer_category_from_filename returns the category of the first rule
\* of the fixed order that has a keyword in the lower-cased file name, and
\* civil-law when no rule has one.
C17_FirstMatchingRule ==
    (subject.fn = "infer_category_from_filename" /\ outcome.returned) =>
        LET hits == MatchingRules(subject.filename)
        IN  IF hits = {} THEN outcome.value = "civil-law"
            ELSE \E k \in hits :
                    /\ \A j \in hits : k <= j
                    /\ outcome.value = InferenceRules[k].category

C17_EstateBeforeTax ==
    /\ subject.fn = "infer_category_from_filename"
    /\ subject.filename = "article-Tax-estate.html"
    /\ outcome.returned
    /\ outcome.value = "inheritance"

RECURSIVE H1Elements(_, _)
H1Elements(pieces, i) ==
    IF i > Len(pieces) THEN 0 ELSE pieces[i].h1 + H1Elements(pieces, i + 1)

SeoReported ==
    /\ subject.fn = "optimize_article_seo"
    /\ result.op = "optimize_article_seo"
    /\ outcome.returned
    /\ "checks" \in DOMAIN outcome.value

InSeq(x, s) == \E i \in 1..Len(s) : s[i] = x

\* C18: the report's h1_count is the number of h1 elements of the document,
\* and the heading-count suggestion is in the report exactly when h1_count
\* is not 1.
C18_H1CountIsElements ==
    SeoReported =>
        /\ outcome.value.checks["h1_count"] = H1Elements(subject.file.pieces, 1)
        /\ InSeq(H1CountOff, outcome.value.suggestions)
            <=> outcome.value.checks["h1_count"] # 1

\* C19: optimize_article_seo on a file that is present, absent or unreadable
\* returns a report or an error value, and leaves the checked file, the
\* index, the sitemap, robots.txt and the directories as they were.
C19_SeoReadOnly ==
    [][subject.fn = "optimize_article_seo"
        => /\ subject' = subject
           /\ UNCHANGED <<indexFile, rootDir, articlesDir, templatePresent,
                          sitemap, robots>>
           /\ result'.op = "optimize_article_seo"
               => /\ outcome'.returned
                  /\ \/ "error" \in DOMAIN outcome'.value
                     \/ "checks" \in DOMAIN outcome'.value]_vars

C19_UnreadableFileReported ==
    /\ result.op = "optimize_article_seo"
    /\ subject.file.exists
    /\ ~subject.file.readable
    /\ outcome.returned
    /\ "error" \in DOMAIN outcome.value

\* The content attribute of the document's first description meta tag.
RECURSIVE FirstDescription(_, _)
FirstDescription(pieces, i) ==
    IF pieces[i].isDescription THEN pieces[i].content
    ELSE FirstDescription(pieces, i + 1)

\* C20: for a document with a meta tag name="description" content="D" the
\* report's description_length is the length of D, and the too-long
\* suggestion is in the report exactly when that length is over 160.
C20_DescriptionLength ==
    (SeoReported /\ \E i \in 1..Len(subject.file.pieces) :
                        subject.file.pieces[i].isDescription) =>
        LET D == FirstDescription(subject.file.pieces, 1)
        IN  /\ "description_length" \in DOMAIN outcome.value.checks
            /\ outcome.value.checks["description_length"] = Len(D)
            /\ InSeq(DescriptionTooLong, outcome.value.suggestions)
                <=> Len(D) > 160

\* C21: a create call that fails leaves no new article file and no changed
\* index behind.
C21_FailedCreateLeavesNothing ==
    [][(result'.op \in CreateOps /\ result'.status # "ok")
        => (rootDir' = rootDir /\ indexFile' = indexFile)]_vars

\* C22: every record of the index names a file of the base directory.
C22_RecordsHaveFiles ==
    \A i \in 1..Len(indexFile.articles) :
        indexFile.articles[i].filename \in Names(rootDir)

C22_RecordAndFileAfterFailedCall ==
    /\ Len(indexFile.articles) = 1
    /\ indexFile.articles[1].filename \in Names(rootDir)
    /\ result.op \in CreateOps
    /\ result.status = "ValueError"

\* The file names scan_existing_articles lists.
Scanned(root) ==
    LET articles == scan_existing_articles(root)
    IN  { articles[j].filename : j \in 1..Len(articles) }

\* C23: a scan lists every article of the index whose file is in the base
\* directory.
C23_ScanListsRegistered ==
    result.op = "scan_existing_articles" =>
        \A i \in 1..Len(indexFile.articles) :
            indexFile.articles[i].filename \in Names(rootDir)
                => indexFile.articles[i].filename \in Scanned(rootDir)

\* C24: generate_sitemap_index has written the locs generate_sitemap writes
\* for the same directories, each with the same priority and changefreq.
SitemapEntries(urls) ==
    { [loc |-> urls[j].loc, priority |-> urls[j].priority,
       changefreq |-> urls[j].changefreq] : j \in 1..Len(urls) }

C24_WritersAgree ==
    result.op = "generate_sitemap_index" =>
        SitemapEntries(sitemap.urls)
            = SitemapEntries(generate_sitemap(rootDir, articlesDir))

\* The keywords of the rules.
RuleKeywords == UNION { InferenceRules[k].keywords : k \in 1..Len(InferenceRules) }

\* C25: the category inferred from the file name generated for a pair of the
\* table and a title without keywords is the category the name was generated
\* for.
C25_CategoryRoundTrip ==
    ( /\ subject.fn = "infer_category_from_filename of generate_filename"
      /\ outcome.returned
      /\ AllowedPair(subject.category, subject.subcategory)
      /\ \A kw \in RuleKeywords : ~Contains(lower(subject.title), kw) )
    => outcome.value = subject.category

RECURSIVE WithoutHyphens(_)
WithoutHyphens(s) ==
    IF s = "" THEN ""
    ELSE (IF Char(s, 1) = "-" THEN "" ELSE Char(s, 1)) \o WithoutHyphens(Rest(s))

\* C26: the date at the end of a record's file name is the record's date
\* without its hyphens.
C26_FilenameDateIsRecordDate ==
    \A i \in 1..Len(indexFile.articles) :
        EndsWith(indexFile.articles[i].filename,
                 "-" \o WithoutHyphens(indexFile.articles[i].date) \o ".html")

====
